---- MODULE Spec2Model ----
(***************************************************************************)
(* Model of SecurityAnalyticsPipeline (src/src/main.py): the date window   *)
(* (get_date_range), the record source (extract / _extract_mock_data),     *)
(* the aggregation (transform) and the report step (load), sequenced by    *)
(* run().                                                                  *)
(*                                                                         *)
(* Conventions                                                             *)
(*   - a datetime is [y, mo, d, sec]: calendar date plus second of day;    *)
(*   - a log record is [timestamp, action, country, ip, response_time_ms]; *)
(*     response_time_ms is [t |-> "num", v |-> n], or t = "null" (absent), *)
(*     or t = "text" (a non-numeric string);                               *)
(*   - a DataFrame is the sequence of its rows; pl.DataFrame() is <<>>;    *)
(*   - a Python dict with ordered keys -> counts is a sequence of          *)
(*     <<key, count>> pairs; the empty dict {} is <<>>;                    *)
(*   - security_score is kept in hundredths (66.67 is 6667).               *)
(***************************************************************************)
EXTENDS Integers, Sequences, FiniteSets, TLC

VARIABLES
    use_mock,   \* self.use_mock, fixed by the constructor
    now,        \* the wall clock datetime.now() reads
    source,     \* rows held by the record source (table access_logs / mock_logs.csv)
    df,         \* the DataFrame extract() returned, handed to transform() (a
                \* placeholder while pc = "FETCHING")
    metrics,    \* the dict transform() returned, handed to load()
    pc,         \* position of run(): which call comes next, or how it ended
    error,      \* the exception that left run(), "none" while there is none
    renders,    \* calls of _generate_html_report
    sends,      \* calls of resend.Emails.send
    saves,      \* calls of _save_report_locally
    fetch,      \* what the record source did: "pending", "rows", "failed"
    delivery,   \* what the delivery sink did: "pending", "ok", "failed"
    window,     \* the pair get_date_range() returned last, <<>> before any call
    calls       \* calls of transform made so far

vars == <<use_mock, now, source, df, metrics, pc, error, renders, sends, saves,
          fetch, delivery, window, calls>>

\* A value not assigned yet (the local variable does not exist).
Unset == [unset |-> TRUE]

\* The empty dict {} and the empty DataFrame pl.DataFrame().
EmptyDict == <<>>
EmptyFrame == <<>>

-----------------------------------------------------------------------------
\* Bounds of the model.

\* Years the clock ranges over: 2023 .. 2023 + YearSpan (2024 is a leap year).
YearSpan == 1
\* Longest batch of the exhaustive family of small batches.
MaxLen == 2
\* Rank family: most IPs of a batch, largest size of its smallest burst, most
\* IPs that share one burst size.
MaxIps == 9
MaxLo == 6
MaxTie == 2
\* Most rows the record source holds in the pipeline runs.
MaxRows == 2
\* Score family: the length of its batches (of 160 rows, blocked / total * 100
\* can be exactly halfway between two hundredths and not be a float).
ScoreRowCount == 160
\* Most clock steps between calls, most direct calls of transform on one batch.
MaxTicks == 1
MaxCalls == 2

\* Program constants.
GeoCap == 5
ThreatCap == 8
SuspiciousThreshold == 5

-----------------------------------------------------------------------------
\* datetime

IsLeap(y) == (y % 4 = 0 /\ y % 100 # 0) \/ y % 400 = 0

DaysInMonth(y, mo) ==
    IF mo = 2 THEN (IF IsLeap(y) THEN 29 ELSE 28)
    ELSE IF mo \in {4, 6, 9, 11} THEN 30 ELSE 31

\* dt.replace(day=1): only the day changes, the time of day is kept.
ReplaceDay1(dt) == [dt EXCEPT !.d = 1]

\* dt - timedelta(days=1)
MinusOneDay(dt) ==
    IF dt.d > 1 THEN [dt EXCEPT !.d = dt.d - 1]
    ELSE IF dt.mo > 1
         THEN [dt EXCEPT !.mo = dt.mo - 1, !.d = DaysInMonth(dt.y, dt.mo - 1)]
         ELSE [dt EXCEPT !.y = dt.y - 1, !.mo = 12, !.d = 31]

\* dt + timedelta(days=1)
PlusOneDay(dt) ==
    IF dt.d < DaysInMonth(dt.y, dt.mo) THEN [dt EXCEPT !.d = dt.d + 1]
    ELSE IF dt.mo < 12
         THEN [dt EXCEPT !.mo = dt.mo + 1, !.d = 1]
         ELSE [dt EXCEPT !.y = dt.y + 1, !.mo = 1, !.d = 1]

\* dt + timedelta(seconds=1)
PlusOneSecond(dt) ==
    IF dt.sec < 86399 THEN [dt EXCEPT !.sec = dt.sec + 1]
    ELSE [PlusOneDay(dt) EXCEPT !.sec = 0]

\* get_date_range with the clock reading t (datetime.now()): replace(day=1) keeps
\* the time of day of t in first_day_current, and so in first_day_prev.
get_date_range(t) ==
    LET today == t
        first_day_current == ReplaceDay1(today)
        last_day_prev == MinusOneDay(first_day_current)
        first_day_prev == ReplaceDay1(last_day_prev)
    IN  <<first_day_prev, first_day_current>>

MonthName(mo) ==
    <<"January", "February", "March", "April", "May", "June", "July", "August",
      "September", "October", "November", "December">>[mo]

\* dt.strftime("%B %Y")
StrftimeMonthYear(dt) == <<MonthName(dt.mo), dt.y>>

\* dt.strftime("%Y-%m-%d %H:%M:%S")
StrftimeSeconds(dt) ==
    <<dt.y, dt.mo, dt.d, dt.sec \div 3600, (dt.sec % 3600) \div 60, dt.sec % 60>>

Years == 2023 .. (2023 + YearSpan)
TimesOfDay == {0, 37800, 86399}

Datetimes ==
    {[y |-> yy, mo |-> mm, d |-> dd, sec |-> ss] :
        yy \in Years, mm \in 1..12, dd \in 1..31, ss \in TimesOfDay}

ValidDatetimes == {t \in Datetimes : t.d <= DaysInMonth(t.y, t.mo)}

-----------------------------------------------------------------------------
\* Log records and DataFrames

\* The action values of the records: the five the pipeline names and one other.
Actions ==
    {"geo_blocked", "path_blocked", "bot_blocked", "legitimate", "bot_allowed",
     "rate_limited"}

GoodTimestamp == "2024-02-10T08:15:00"
BadTimestamp == "not-a-timestamp"

\* Whether str.strptime(pl.Datetime), strict by default, parses the string.
StrptimeParses(ts) == ts = GoodTimestamp

Num(n) == [t |-> "num", v |-> n]
NullValue == [t |-> "null", v |-> 0]
TextValue == [t |-> "text", v |-> 0]

Rec(ts, a, c, i, l) ==
    [timestamp |-> ts, action |-> a, country |-> c, ip |-> i, response_time_ms |-> l]

\* Where the requests of the small batches come from: two IPs of one country,
\* one of them seen from a second country too.
Origins == {<<"US", <<1, 2, 3, 4>>>>, <<"US", <<9, 9, 9, 9>>>>, <<"CN", <<9, 9, 9, 9>>>>}

\* Well-formed records: an attack from each origin, a request of each other
\* action from the first origin (transform groups the attack rows only).
CleanRecords ==
    {Rec(GoodTimestamp, a, o[1], o[2], Num(120)) :
        a \in {"geo_blocked", "path_blocked", "bot_blocked"}, o \in Origins}
    \cup {Rec(GoodTimestamp, a, "US", <<1, 2, 3, 4>>, Num(120)) : a \in Actions}

\* Records with an unparseable timestamp, an absent latency, another latency
\* value, a non-numeric latency.
OddRecords ==
    { Rec(BadTimestamp, "geo_blocked", "US", <<1, 2, 3, 4>>, Num(120)),
      Rec(GoodTimestamp, "legitimate", "US", <<1, 2, 3, 4>>, NullValue),
      Rec(GoodTimestamp, "bot_allowed", "CN", <<9, 9, 9, 9>>, Num(45)),
      Rec(GoodTimestamp, "geo_blocked", "CN", <<9, 9, 9, 9>>, TextValue) }

Records == CleanRecords \cup OddRecords

SeqsUpTo(S, n) == UNION {[1..k -> S] : k \in 0..n}

\* The exhaustive family: every batch of at most MaxLen records.
SmallBatches == SeqsUpTo(Records, MaxLen)

-----------------------------------------------------------------------------
\* transform: the aggregation

\* The emptiness test left out: every frame is aggregated.
is_empty_ignored(d) == FALSE

\* df.is_empty()
is_empty(d) == Len(d) = 0

\* The list of blocking actions with path_blocked forgotten.
AttackActions_no_path == {"geo_blocked", "bot_blocked"}

\* df.filter(pl.col('action').is_in([...])): the attack rows, in their order
AttackActions == {"geo_blocked", "path_blocked", "bot_blocked"}
IsAttack(r) == r.action \in AttackActions
attacks_df(d) == SelectSeq(d, IsAttack)

\* df.filter(pl.col('action') == 'legitimate')
IsLegitimate(r) == r.action = "legitimate"
legitimate_df(d) == SelectSeq(d, IsLegitimate)

\* df.filter(pl.col('action') == 'bot_allowed')
IsBotAllowed(r) == r.action = "bot_allowed"
bots_df(d) == SelectSeq(d, IsBotAllowed)

\* The with_columns(... str.strptime(pl.Datetime)) of a non-empty frame raises
\* when a timestamp does not parse.
strptime_raises(d) == \E i \in 1..Len(d) : ~StrptimeParses(d[i].timestamp)

\* d.group_by(col).len(): the number of rows of each value of the column
ColumnValues(d, col) == {d[i][col] : i \in 1..Len(d)}
group_by_len(d, col) ==
    [k \in ColumnValues(d, col) |-> Cardinality({i \in 1..Len(d) : d[i][col] = k})]

\* The threshold taken inclusively (len >= 5).
IsSuspicious_inclusive(n) == n >= SuspiciousThreshold

\* .filter(pl.col('len') > 5): the groups the predicate keeps
IsSuspicious(n) == n > SuspiciousThreshold
filter_len(g) == [k \in {x \in DOMAIN g : IsSuspicious(g[x])} |-> g[k]]

MaxLenOf(g, keys) == CHOOSE m \in {g[k] : k \in keys} : \A k \in keys : g[k] <= m

\* .sort('len', descending=True).head(n) of the groups `keys` of g. group_by
\* (maintain_order=False) emits the groups in no defined order and the sort does
\* not order equal counts, so every arrangement of equal counts is a possible
\* result: the set of the possible results, each a sequence of <<key, len>>.
RECURSIVE SortDescHeadOf(_, _, _)
SortDescHeadOf(g, keys, n) ==
    IF n = 0 \/ keys = {} THEN {<<>>}
    ELSE LET m == MaxLenOf(g, keys)
         IN  UNION {{<<<<k, m>>>> \o rest : rest \in SortDescHeadOf(g, keys \ {k}, n - 1)} :
                        k \in {x \in keys : g[x] = m}}

\* The sort without the head(n) that caps it.
sort_desc_uncapped(g, n) == SortDescHeadOf(g, DOMAIN g, Cardinality(DOMAIN g))

sort_desc_head(g, n) == SortDescHeadOf(g, DOMAIN g, n)

\* attacks_df.group_by('country').len().sort('len', descending=True).head(5),
\* zipped into a dict: the possible results
top_countries_dict(attacks) == sort_desc_head(group_by_len(attacks, "country"), GeoCap)

\* attacks_df.group_by('ip').len().filter(len > 5).sort(...).head(8), zipped
suspicious_ips_dict(attacks) ==
    sort_desc_head(filter_len(group_by_len(attacks, "ip")), ThreatCap)

\* A Python float is a binary64: 53 significant binary digits and a power of
\* two. Below a float is [m, k]: the number m / Base^k, where m is a natural
\* number written as the sequence of its digits in base Base, most
\* significant first, of which no more than MantissaBits binary digits count.
\* The integers divided are below 2^23 (a remainder times Base stays an integer
\* of the model).
MantissaBits == 53
LimbBits == 8
Base == 2^LimbBits

\* The digits of a natural number (none for 0).
RECURSIVE DigitsOf(_)
DigitsOf(n) == IF n = 0 THEN <<>> ELSE DigitsOf(n \div Base) \o <<n % Base>>

\* The natural number written by a short run of digits.
RECURSIVE IntOf(_)
IntOf(m) ==
    IF m = <<>> THEN 0 ELSE Base * IntOf(SubSeq(m, 1, Len(m) - 1)) + m[Len(m)]

\* The number of binary digits of a digit d > 0.
BitLen(d) == CHOOSE n \in 1 .. LimbBits : 2^(n - 1) <= d /\ d < 2^n

\* The first n digits of r / b after the point, for r < b.
RECURSIVE DivDigits(_, _, _)
DivDigits(r, b, n) ==
    IF n = 0 THEN <<>>
    ELSE <<(r * Base) \div b>> \o DivDigits((r * Base) % b, b, n - 1)

\* What is left of r / b after those n digits.
RECURSIVE DivRem(_, _, _)
DivRem(r, b, n) == IF n = 0 THEN r ELSE DivRem((r * Base) % b, b, n - 1)

\* The number of zero digits of r / b between the point and its first nonzero
\* digit, for 0 < r < b.
RECURSIVE LeadingZeros(_, _)
LeadingZeros(r, b) == IF r * Base >= b THEN 0 ELSE 1 + LeadingZeros(r * Base, b)

\* m + v * Base^(Len(m) - pos): v added to the digit at pos, the carry going on
\* to the digits before it.
RECURSIVE AddAt(_, _, _)
AddAt(m, pos, v) ==
    IF pos = 0 THEN <<v>> \o m
    ELSE LET sum == m[pos] + v
             after == SubSeq(m, pos + 1, Len(m))
         IN  IF sum < Base THEN SubSeq(m, 1, pos - 1) \o <<sum>> \o after
             ELSE AddAt(SubSeq(m, 1, pos - 1) \o <<sum - Base>> \o after, pos - 1, 1)

\* m * c + carry for a small c.
RECURSIVE MulDigits(_, _, _)
MulDigits(m, c, carry) ==
    IF m = <<>> THEN DigitsOf(carry)
    ELSE LET v == m[Len(m)] * c + carry
         IN  MulDigits(SubSeq(m, 1, Len(m) - 1), c, v \div Base) \o <<v % Base>>

NonZero(m) == \E i \in 1 .. Len(m) : m[i] # 0

\* The number with MantissaBits binary digits nearest to m (plus a nonzero tail
\* below its last digit when sticky), an exact half going to the even one: the
\* rounding every float operation ends with. m starts with a nonzero digit.
RoundNearestEven(m, sticky) ==
    LET drop == LimbBits * (Len(m) - 1) + BitLen(m[1]) - MantissaBits
        s == drop % LimbBits
        pos == Len(m) - (drop \div LimbBits)
        \* the digit that holds the first binary digit dropped, and its weight there
        g == IF s > 0 THEN pos ELSE pos + 1
        half == IF s > 0 THEN 2^(s - 1) ELSE Base \div 2
        guard == (m[g] \div half) % 2 = 1
        below == sticky \/ m[g] % half # 0 \/ NonZero(SubSeq(m, g + 1, Len(m)))
        odd == (m[pos] \div 2^s) % 2 = 1
        kept == SubSeq(m, 1, pos - 1) \o <<(m[pos] \div 2^s) * 2^s>>
                    \o [i \in 1 .. Len(m) - pos |-> 0]
    IN  IF drop <= 0 THEN m
        ELSE IF guard /\ (below \/ odd) THEN AddAt(kept, pos, 2^s) ELSE kept

\* a / b on floats, for integers a > 0 and b > 0: the digits of the quotient
\* down to more than a mantissa holds, and whether anything is left below.
FloatDiv(a, b) ==
    LET whole == DigitsOf(a \div b)
        r == a % b
        z == IF whole = <<>> THEN LeadingZeros(r, b) ELSE 0
        k == z + (MantissaBits \div LimbBits) + 2
        digits == DivDigits(r, b, k)
    IN  [m |-> RoundNearestEven(whole \o SubSeq(digits, z + 1, k), DivRem(r, b, k) # 0),
         k |-> k]

\* x * c on floats, for a small integer c > 0.
FloatMul(x, c) == [m |-> RoundNearestEven(MulDigits(x.m, c, 0), FALSE), k |-> x.k]

\* round(x, 2) in hundredths: the integer nearest to the exact value of
\* 100 * x, an exact half going to the even one.
FloatRound2(x) ==
    LET h == MulDigits(x.m, 100, 0)
        padded == IF Len(h) > x.k THEN h ELSE [i \in 1 .. x.k + 1 - Len(h) |-> 0] \o h
        whole == IntOf(SubSeq(padded, 1, Len(padded) - x.k))
        frac == SubSeq(padded, Len(padded) - x.k + 1, Len(padded))
        half == Base \div 2
        up == /\ frac[1] >= half
              /\ \/ frac[1] > half
                 \/ NonZero(SubSeq(frac, 2, Len(frac)))
                 \/ whole % 2 = 1
    IN  IF up THEN whole + 1 ELSE whole

\* round((blocked / total) * 100, 2), in hundredths: the quotient is rounded
\* to a float, so is its product by 100, and round() takes the float it is
\* given. 23 / 160 * 100 is stored as 14.374999999999998 and gives 14.37.
Round2(blocked, total) ==
    IF blocked = 0 THEN 0 ELSE FloatRound2(FloatMul(FloatDiv(blocked, total), 100))

\* The score cut to two decimals instead of rounded.
security_score_truncated(blocked, total) ==
    IF total > 0 THEN (blocked * 10000) \div total ELSE 0

\* round((len(attacks_df) / len(df)) * 100, 2) if len(df) > 0 else 0
security_score(blocked, total) == IF total > 0 THEN Round2(blocked, total) ELSE 0

\* df.select(pl.col('response_time_ms').mean()).item(): the mean of the values
\* that are not null, Unset (None) when there is none; a column holding a
\* non-numeric string is a string column, whose mean is null.

\* The numeric value of the latency of a row, 0 when it has none.
LatencyOf(r) == IF r.response_time_ms.t = "num" THEN r.response_time_ms.v ELSE 0

\* The sum of the numeric latencies of the rows lo .. hi of d.
RECURSIVE SumLatencyOf(_, _, _)
SumLatencyOf(d, lo, hi) ==
    IF lo > hi THEN 0
    ELSE IF lo = hi THEN LatencyOf(d[lo])
    ELSE LET mid == (lo + hi) \div 2
         IN  SumLatencyOf(d, lo, mid) + SumLatencyOf(d, mid + 1, hi)

SumLatency(d) == SumLatencyOf(d, 1, Len(d))

HasLatency(r) == r.response_time_ms.t = "num"
HasTextLatency(r) == r.response_time_ms.t = "text"

\* int(avg_latency) if avg_latency is not None else 0
avg_latency_ms(d) ==
    LET n == Len(SelectSeq(d, HasLatency))
    IN  IF Len(SelectSeq(d, HasTextLatency)) > 0 \/ n = 0 THEN 0
        ELSE SumLatency(d) \div n

\* The dict transform returns for the frame d with the attack rows `attacks`,
\* its mean latency and the two rankings geo and ti. transform reads the clock
\* twice: t1 is the reading of get_date_range() (line 147), t2 the later
\* reading of datetime.now() in the dict (line 151).
MetricsDict(d, t1, t2, attacks, latency, geo, ti) ==
    [ report_date |-> StrftimeMonthYear(get_date_range(t1)[1]),
      generated_at |-> StrftimeSeconds(t2),
      summary |-> [ total_requests |-> Len(d),
                    blocked_requests |-> Len(attacks),
                    security_score |-> security_score(Len(attacks), Len(d)),
                    avg_latency_ms |-> latency ],
      geo_analysis |-> geo,
      threat_intel |-> ti,
      traffic_quality |-> [ legitimate |-> Len(legitimate_df(d)),
                            bots |-> Len(bots_df(d)) ] ]

\* transform(df) raises (the run aborts) instead of returning
transform_raises(d) == ~is_empty(d) /\ strptime_raises(d)

-----------------------------------------------------------------------------
\* The rank family of batches: n IPs, IP number i of country number
\* ((i-1) % 6) + 1, each sending a burst of attack records (the three blocking
\* actions in turn) and then one legitimate record. The bursts come in order
\* of size: lo, lo+1, ... except that the k IPs from number p on share one size.

RankPlans ==
    {[n |-> n, lo |-> lo, p |-> p, k |-> k] :
        n \in 0 .. MaxIps, lo \in 1 .. MaxLo, p \in 1 .. MaxIps, k \in 1 .. MaxTie}

BurstSize(plan, i) ==
    plan.lo + (IF i < plan.p THEN i - 1
               ELSE IF i < plan.p + plan.k THEN plan.p - 1
               ELSE i - plan.k)

RankCountries == <<"US", "CN", "RU", "BR", "IN", "DE">>
RankCountry(i) == RankCountries[((i - 1) % Len(RankCountries)) + 1]
RankIp(i) == <<10, 0, 0, i>>
AttackCycle == <<"geo_blocked", "path_blocked", "bot_blocked">>

Burst(i, size) ==
    [j \in 1 .. size + 1 |->
        Rec(GoodTimestamp,
            IF j <= size THEN AttackCycle[(j % 3) + 1] ELSE "legitimate",
            RankCountry(i), RankIp(i), Num(120))]

\* The bursts of the IPs i .. plan.n
RECURSIVE RankRows(_, _)
RankRows(plan, i) ==
    IF i > plan.n THEN <<>>
    ELSE Burst(i, BurstSize(plan, i)) \o RankRows(plan, i + 1)

RankBatches == {RankRows(plan, 1) : plan \in RankPlans}

\* The score family of batches: ScoreRowCount records of one IP, the first
\* `blocked` of them attacks and the others legitimate.
ScoreRows(blocked) ==
    [j \in 1 .. ScoreRowCount |->
        Rec(GoodTimestamp, IF j <= blocked THEN "geo_blocked" ELSE "legitimate",
            RankCountry(1), RankIp(1), Num(120))]

ScoreBatches == {ScoreRows(blocked) : blocked \in 0 .. ScoreRowCount}

-----------------------------------------------------------------------------
\* The clock

ClockStart == [y |-> 2024, mo |-> 2, d |-> 29, sec |-> 86399]

RECURSIVE ClockAfter(_)
ClockAfter(k) == IF k = 0 THEN ClockStart ELSE PlusOneSecond(ClockAfter(k - 1))

\* The readings the clock can give at or after the reading t.
Later(t) ==
    {ClockAfter(k) : k \in {j \in 0 .. MaxTicks : \E i \in 0 .. j : ClockAfter(i) = t}}

\* The ways a call transform(df) that returns can go when the clock reads t1 as
\* it starts: the value returned, and the clock as the call left it. An empty
\* frame returns {} before any reading; else the second reading is t1 or
\* later, time passing while transform runs.
transform_calls(d, t1) ==
    IF is_empty(d) THEN {[value |-> EmptyDict, clock |-> t1]}
    ELSE LET attacks == attacks_df(d)
             \* the dict but for its second reading and its rankings
             one == MetricsDict(d, t1, t1, attacks, avg_latency_ms(d), <<>>, <<>>)
             geos == top_countries_dict(attacks)
             tis == suspicious_ips_dict(attacks)
         IN  {[value |-> [one EXCEPT !.generated_at = StrftimeSeconds(t2),
                                     !.geo_analysis = geo,
                                     !.threat_intel = ti],
               clock |-> t2] :
                 t2 \in Later(t1), geo \in geos, ti \in tis}

\* The values transform(df) can return when its two clock readings are t1 and t2
transform_returns(d, t1, t2) ==
    {c.value : c \in {x \in transform_calls(d, t1) : is_empty(d) \/ x.clock = t2}}

\* Time passes (between two calls, between two steps of run()).
Tick ==
    /\ \E k \in 0 .. MaxTicks - 1 : now = ClockAfter(k)
    /\ now' = PlusOneSecond(now)
    /\ UNCHANGED <<use_mock, source, df, metrics, pc, error, renders, sends, saves,
                   fetch, delivery, window, calls>>

-----------------------------------------------------------------------------
\* run(): extract, transform, load

\* Whether pl.DataFrame(data) meets a column with both numbers and strings.
MixedLatency(rows) ==
    /\ \E i \in 1..Len(rows) : rows[i].response_time_ms.t = "num"
    /\ \E i \in 1..Len(rows) : rows[i].response_time_ms.t = "text"

\* _extract_mock_data: pl.read_csv("data/mock_logs.csv") returns the rows of the
\* file, or raises FileNotFoundError (the path is relative to the working
\* directory, so the file can be missing whatever it holds), which is caught and
\* answered with an empty DataFrame, or raises another error (unreadable or
\* unparseable file), which leaves run().
ExtractMock ==
    /\ pc = "FETCHING"
    /\ use_mock
    /\ \E outcome \in {"rows", "missing", "unreadable"} :
          CASE outcome = "rows" ->
                 /\ df' = source
                 /\ fetch' = "rows"
                 /\ pc' = "AGGREGATING"
                 /\ error' = error
            [] outcome = "missing" ->
                 /\ df' = EmptyFrame
                 /\ fetch' = "failed"
                 /\ pc' = "AGGREGATING"
                 /\ error' = error
            [] outcome = "unreadable" ->
                 /\ df' = df
                 /\ fetch' = "failed"
                 /\ pc' = "FAILED"
                 /\ error' = "read_csv"
    /\ UNCHANGED <<use_mock, now, source, metrics, renders, sends, saves, delivery, window,
                   calls>>

\* extract with use_mock False: the window is computed, the query runs inside
\* try; an exception is logged and raised again; no data gives pl.DataFrame().
\* pl.DataFrame(data) is inside the try too: rows whose latency mixes numbers and
\* strings either raise there or give a string column, depending on the build.
ExtractLive ==
    /\ pc = "FETCHING"
    /\ ~use_mock
    /\ window' = get_date_range(now)
    /\ \E outcome \in {"rows", "exception"} \cup
                      (IF MixedLatency(source) THEN {"mixed"} ELSE {}) :
          CASE outcome = "rows" ->
                 /\ df' = IF Len(source) = 0 THEN EmptyFrame ELSE source
                 /\ fetch' = "rows"
                 /\ pc' = "AGGREGATING"
                 /\ error' = error
            [] outcome = "exception" ->
                 /\ df' = df
                 /\ fetch' = "failed"
                 /\ pc' = "FAILED"
                 /\ error' = "query"
            [] outcome = "mixed" ->
                 /\ df' = df
                 /\ fetch' = "rows"
                 /\ pc' = "FAILED"
                 /\ error' = "DataFrame"
    /\ UNCHANGED <<use_mock, now, source, metrics, renders, sends, saves, delivery, calls>>

\* metrics = self.transform(df)
Transform ==
    /\ pc = "AGGREGATING"
    /\ IF transform_raises(df)
       THEN /\ pc' = "FAILED"
            /\ error' = "strptime"
            /\ UNCHANGED <<metrics, window, now>>
       ELSE /\ \E call \in transform_calls(df, now) :
                 /\ metrics' = call.value
                 /\ now' = call.clock
            /\ window' = IF is_empty(df) THEN window ELSE get_date_range(now)
            /\ pc' = "DELIVERING"
            /\ error' = error
    /\ calls' = calls + 1
    /\ UNCHANGED <<use_mock, source, df, renders, sends, saves, fetch, delivery>>

\* `not metrics`
NoMetrics(m) == DOMAIN m = {}

\* self.load(metrics): nothing to report and return; else the report is
\* rendered and, with use_mock, saved outside any try (an error leaves run()),
\* without it, sent inside try/except Exception (an error is logged).
Load ==
    /\ pc = "DELIVERING"
    /\ IF NoMetrics(metrics)
       THEN /\ pc' = "SKIPPED"
            /\ UNCHANGED <<renders, sends, saves, delivery, error>>
       ELSE /\ renders' = renders + 1
            /\ \E ok \in BOOLEAN :
                 /\ delivery' = IF ok THEN "ok" ELSE "failed"
                 /\ IF use_mock
                    THEN /\ saves' = saves + 1
                         /\ sends' = sends
                         /\ pc' = IF ok THEN "DONE" ELSE "FAILED"
                         /\ error' = IF ok THEN error ELSE "OSError"
                    ELSE /\ sends' = sends + 1
                         /\ saves' = saves
                         /\ pc' = "DONE"
                         /\ error' = error
    /\ UNCHANGED <<use_mock, now, source, df, metrics, fetch, window, calls>>

\* A direct call transform(df) by a caller that holds the frame; it can be
\* repeated.
Aggregate ==
    /\ pc = "CALL"
    /\ calls < MaxCalls
    /\ calls' = calls + 1
    /\ IF transform_raises(df)
       THEN /\ error' = "strptime"
            /\ UNCHANGED <<metrics, window, now>>
       ELSE /\ \E call \in transform_calls(df, now) :
                 /\ metrics' = call.value
                 /\ now' = call.clock
            /\ window' = IF is_empty(df) THEN window ELSE get_date_range(now)
            /\ error' = "none"
    /\ UNCHANGED <<use_mock, source, df, pc, renders, sends, saves, fetch, delivery>>

\* A direct call get_date_range().
DateRange ==
    /\ pc = "CLOCK"
    /\ window' = get_date_range(now)
    /\ UNCHANGED <<use_mock, now, source, df, metrics, pc, error, renders, sends, saves,
                   fetch, delivery, calls>>

Idle ==
    /\ metrics = Unset /\ error = "none" /\ renders = 0 /\ sends = 0 /\ saves = 0
    /\ fetch = "pending" /\ delivery = "pending" /\ window = <<>> /\ calls = 0

\* A pipeline object about to run(), the source holding at most MaxRows rows.
Init ==
    /\ use_mock \in BOOLEAN
    /\ now = ClockStart
    /\ source \in SeqsUpTo(Records, MaxRows)
    /\ df = EmptyFrame
    /\ pc = "FETCHING"
    /\ Idle

\* A step of run()
Step == ExtractMock \/ ExtractLive \/ Transform \/ Load

\* run() steps, and time passes between its steps.
Next == Step \/ Tick

Spec == Init /\ [][Next]_vars

\* transform as a function of the frame and the clock: a caller holds a batch
\* and calls transform on it, time passing between the calls.
InitEngine ==
    /\ use_mock = TRUE
    /\ now = ClockStart
    /\ source = <<>>
    /\ df \in SmallBatches \cup RankBatches \cup ScoreBatches
    /\ pc = "CALL"
    /\ Idle

NextEngine == Aggregate \/ Tick

SpecEngine == InitEngine /\ [][NextEngine]_vars

\* get_date_range as a function of the clock.
InitWindow ==
    /\ use_mock = TRUE
    /\ now \in ValidDatetimes
    /\ source = <<>>
    /\ df = EmptyFrame
    /\ pc = "CLOCK"
    /\ Idle

NextWindow == DateRange

SpecWindow == InitWindow /\ [][NextWindow]_vars

-----------------------------------------------------------------------------
\* Properties. The counts below are taken from the rows themselves, not from
\* the operators of transform.

Blocking == {"geo_blocked", "path_blocked", "bot_blocked"}

\* m is a summary: transform returned and did not return {}.
IsSummary(m) == m # Unset /\ ~NoMetrics(m)

CountAction(d, S) == Cardinality({i \in 1..Len(d) : d[i].action \in S})

AttackRows(d) == {i \in 1..Len(d) : d[i].action \in Blocking}
AttackKeys(d, col) == {d[i][col] : i \in AttackRows(d)}
AttackCount(d, col, k) == Cardinality({i \in AttackRows(d) : d[i][col] = k})
FirstSeen(d, col, k) ==
    CHOOSE i \in AttackRows(d) :
        /\ d[i][col] = k
        /\ \A j \in AttackRows(d) : d[j][col] = k => i <= j
SuspiciousIps(d) == {k \in AttackKeys(d, "ip") : AttackCount(d, "ip", k) > 5}

Min2(a, b) == IF a <= b THEN a ELSE b
Listed(r) == {r[i][1] : i \in 1..Len(r)}

\* extract() returned a frame to run().
Extracted == pc \in {"AGGREGATING", "DELIVERING", "SKIPPED", "DONE"}
             \/ (pc = "FAILED" /\ error \in {"strptime", "OSError"})

Terminal == pc \in {"SKIPPED", "DONE", "FAILED"}

\* C1: in a run whose record source yields an empty collection, transform
\* returns the empty dict, never a summary with total_requests = 0; the
\* renderer and the sink (email or local save) are never called, and the run
\* goes on to end in SKIPPED, never in DONE or in a failure.
C1_EmptySourceSkips ==
    (Extracted /\ Len(df) = 0) =>
        /\ pc \in {"AGGREGATING", "DELIVERING", "SKIPPED"}
        /\ pc = "AGGREGATING" => metrics = Unset
        /\ pc # "AGGREGATING" => metrics = EmptyDict
        /\ renders = 0 /\ sends = 0 /\ saves = 0
        /\ pc # "SKIPPED" => ENABLED Step

C1_Witness == pc = "SKIPPED" /\ fetch = "rows" /\ Len(df) = 0 /\ metrics = EmptyDict

\* C2: a summary counts every record in total_requests, the records whose
\* action is geo_blocked, path_blocked or bot_blocked in blocked_requests,
\* those with action legitimate in traffic_quality.legitimate and those with
\* action bot_allowed in traffic_quality.bots; a record with another action
\* is in total_requests only.
C2_ClassifiedByAction ==
    IsSummary(metrics) =>
        /\ Len(df) > 0
        /\ metrics.summary.total_requests = Len(df)
        /\ metrics.summary.blocked_requests = CountAction(df, Blocking)
        /\ metrics.traffic_quality.legitimate = CountAction(df, {"legitimate"})
        /\ metrics.traffic_quality.bots = CountAction(df, {"bot_allowed"})
        /\ metrics.summary.blocked_requests + metrics.traffic_quality.legitimate
             + metrics.traffic_quality.bots
           = Len(df) - CountAction(df, Actions \ (Blocking \cup {"legitimate", "bot_allowed"}))

C2_Witness ==
    /\ IsSummary(metrics)
    /\ \E i, j \in 1..Len(df) : df[i].action = "rate_limited" /\ df[j].action = "path_blocked"
    /\ metrics.summary.total_requests = 2
    /\ metrics.summary.blocked_requests = 1

\* C3: in every summary blocked_requests <= total_requests and security_score
\* is within [0, 100] and is blocked / total * 100 to the nearest hundredth
\* (0 when total_requests = 0).
C3_ScoreBounded ==
    IsSummary(metrics) =>
        LET b == metrics.summary.blocked_requests
            n == metrics.summary.total_requests
            sc == metrics.summary.security_score
            diff == sc * n - b * 10000
        IN  /\ 0 <= b /\ b <= n
            /\ 0 <= sc /\ sc <= 10000
            /\ n = 0 => sc = 0
            /\ n > 0 => (2 * diff <= n /\ -2 * diff <= n)

\* 23 of 160 records blocked: 14.375 exactly, 14.37 as the score
C3_Witness ==
    /\ IsSummary(metrics)
    /\ metrics.summary.total_requests = 160
    /\ metrics.summary.blocked_requests = 23
    /\ metrics.summary.security_score = 1437

\* C4: every key of threat_intel is an IP with strictly more than 5 attack
\* records in the batch and its value is that number; so an IP with 5 or fewer
\* is never listed, and while at most 8 IPs have more than 5 each of them is.
C4_ThreatIntelAboveFive ==
    IsSummary(metrics) =>
        /\ \A e \in 1..Len(metrics.threat_intel) :
              /\ metrics.threat_intel[e][2] > 5
              /\ metrics.threat_intel[e][2] = AttackCount(df, "ip", metrics.threat_intel[e][1])
        /\ Cardinality(SuspiciousIps(df)) <= 8 =>
              Listed(metrics.threat_intel) = SuspiciousIps(df)

\* one IP with exactly 5 attack records (and a sixth, legitimate, record) is
\* left out, one with 6 is listed with 6
C4_Witness ==
    /\ IsSummary(metrics)
    /\ \E k \in AttackKeys(df, "ip") :
          /\ AttackCount(df, "ip", k) = 5
          /\ Cardinality({i \in 1..Len(df) : df[i].ip = k}) = 6
          /\ k \notin Listed(metrics.threat_intel)
    /\ \E e \in 1..Len(metrics.threat_intel) : metrics.threat_intel[e][2] = 6

\* r lists min(cap, number of groups) distinct groups of K with their attack
\* counts, no count below a later one, and no unlisted group above a listed one.
Ranked(r, d, col, K, cap) ==
    /\ Len(r) = Min2(cap, Cardinality(K))
    /\ \A i \in 1..Len(r) : r[i][1] \in K /\ r[i][2] = AttackCount(d, col, r[i][1])
    /\ \A i, j \in 1..Len(r) : i < j => (r[i][1] # r[j][1] /\ r[i][2] >= r[j][2])
    /\ \A k \in K \ Listed(r) : \A i \in 1..Len(r) : AttackCount(d, col, k) <= r[i][2]

\* k1 comes before k2: a larger count, or the same count and seen first.
Before(d, col, k1, k2) ==
    \/ AttackCount(d, col, k1) > AttackCount(d, col, k2)
    \/ /\ AttackCount(d, col, k1) = AttackCount(d, col, k2)
       /\ FirstSeen(d, col, k1) < FirstSeen(d, col, k2)

FirstSeenRanked(r, d, col, K) ==
    /\ \A i, j \in 1..Len(r) : i < j => Before(d, col, r[i][1], r[j][1])
    /\ \A k \in K \ Listed(r) : \A i \in 1..Len(r) : Before(d, col, r[i][1], k)

\* C5 as claimed: geo_analysis and threat_intel are in descending order of
\* count, equal counts in order of first appearance in the input, capped at 5
\* and 8, the entries kept being the first of that ordering.
C5_FirstSeenOrder ==
    IsSummary(metrics) =>
        /\ Ranked(metrics.geo_analysis, df, "country", AttackKeys(df, "country"), 5)
        /\ Ranked(metrics.threat_intel, df, "ip", SuspiciousIps(df), 8)
        /\ FirstSeenRanked(metrics.geo_analysis, df, "country", AttackKeys(df, "country"))
        /\ FirstSeenRanked(metrics.threat_intel, df, "ip", SuspiciousIps(df))

\* C5 as amended: geo_analysis and threat_intel are in descending order of
\* count and capped at 5 and 8 entries, no group left out having a larger
\* count than a group kept; the order of groups of equal count, and which of
\* them is kept at the cap, is not fixed by the input.
C5_RankedAndCapped ==
    IsSummary(metrics) =>
        /\ Ranked(metrics.geo_analysis, df, "country", AttackKeys(df, "country"), 5)
        /\ Ranked(metrics.threat_intel, df, "ip", SuspiciousIps(df), 8)

\* more than 5 countries and more than 8 suspicious IPs, two of them tied and
\* listed against the order of first appearance
C5_Witness ==
    /\ IsSummary(metrics)
    /\ Cardinality(AttackKeys(df, "country")) > 5
    /\ Cardinality(SuspiciousIps(df)) > 8
    /\ Len(metrics.geo_analysis) = 5
    /\ Len(metrics.threat_intel) = 8
    /\ metrics.geo_analysis[1][2] > metrics.geo_analysis[5][2]
    /\ ~FirstSeenRanked(metrics.threat_intel, df, "ip", SuspiciousIps(df))

\* The fetch of the record source failed and the failure left run().
FetchAborted ==
    /\ pc = "FAILED"
    /\ error \in {"query", "read_csv"}
    /\ metrics = Unset
    /\ renders = 0 /\ sends = 0 /\ saves = 0

\* C6: in both source modes a failed fetch leaves run() as a failure before
\* transform is called: no summary, no render, no delivery, and never an empty
\* frame that takes the run to SKIPPED.
C6_FetchFailureAborts == fetch = "failed" => FetchAborted

\* C7: once a summary is rendered the run ends in DONE whatever the sink does:
\* a failure of the sink is caught in load, the sink is called at most once and
\* nothing is raised out of load/run.
C7_SinkFailureStillDone ==
    /\ sends + saves <= 1
    /\ (renders > 0 /\ Terminal) => (pc = "DONE" /\ error = "none")

Malformed(d) ==
    \E i \in 1..Len(d) : d[i].timestamp = BadTimestamp \/ d[i].response_time_ms.t = "text"

\* C8: when a record of the batch is malformed (unparseable timestamp, or a
\* latency that is present and not numeric) transform fails for the whole
\* batch: no summary is returned and the run does not render or deliver.
C8_MalformedAborts ==
    (Extracted /\ Malformed(df) /\ pc # "AGGREGATING") =>
        /\ pc = "FAILED"
        /\ metrics = Unset
        /\ renders = 0 /\ sends = 0 /\ saves = 0

\* The window the claim describes for the clock reading t.
MonthStart(y, mo) == [y |-> y, mo |-> mo, d |-> 1, sec |-> 0]
ClaimedWindow(t) ==
    << IF t.mo = 1 THEN MonthStart(t.y - 1, 12) ELSE MonthStart(t.y, t.mo - 1),
       MonthStart(t.y, t.mo) >>

\* C9: for every "now" get_date_range returns 00:00:00 of day 1 of the month
\* before the month of now and 00:00:00 of day 1 of the month of now.
C9_WindowIsMonthStart == window # <<>> => window = ClaimedWindow(now)

\* C10: two calls of transform on the same batch at different wall-clock times
\* return the same value in every field, report_date and generated_at
\* included: transform reads no clock.
C10_SameOutputAnyTime ==
    [][(calls >= 1 /\ calls' = calls + 1 /\ error' = "none") => metrics' = metrics]_vars

====
